---- MODULE Spec2Model ----
(***************************************************************************)
(* Model of the lodge website's front-end glue:                            *)
(*   - the Session Tracker (src/src/contexts/AuthContext.tsx, AuthProvider)*)
(*   - the data-access layer (src/src/lib/api.ts, objects api and cmsApi)  *)
(* Every await of the source is a point where the event loop may run other *)
(* callbacks, so each async function is split at its awaits: one action    *)
(* for the synchronous prefix, one for each continuation.                  *)
(***************************************************************************)
EXTENDS Integers, Sequences, FiniteSets, Bags, TLC

VARIABLES
    user,       \* useState<User | null>            AuthContext.tsx:51
    profile,    \* useState<MemberProfile | null>   AuthContext.tsx:52
    loading,    \* useState(true)                   AuthContext.tsx:53
    error,      \* useState<string | null>          AuthContext.tsx:54
    mounted,    \* let mounted = true (effect closure) AuthContext.tsx:89
    initTask,   \* position of getInitialSession()  AuthContext.tsx:92-111
    tasks,      \* bag of the other suspended async calls of the tracker
    last,       \* the step taken last: operation, argument, outcome
    env,        \* import.meta.env: which connection parameters are set
    call        \* the data-access call being followed (api.ts)

cells == <<user, profile, loading, error>>
authVars == <<user, profile, loading, error, mounted, initTask, tasks, last>>
apiVars == <<env, call>>
vars == <<user, profile, loading, error, mounted, initTask, tasks, last, env, call>>

----------------------------------------------------------------------------
(* Values *)

\* null of a record-valued cell (user, profile, session)
Null == [null |-> TRUE]
\* null of the error cell
NoError == "null"
\* a property the object does not have
Undefined == "undefined"

DemoEmail == "demo@radlettlodge.org"

\* at most this many suspended signOut / refreshProfile / handler calls at once
MaxTasks == 2

\* User records of the auth provider: id, email, and the rest (here the
\* session token, which changes on every token rotation)
Identities ==
    { [id |-> "u1", email |-> DemoEmail, token |-> "t1"],
      [id |-> "u1", email |-> DemoEmail, token |-> "t2"],
      [id |-> "u2", email |-> "member@radlettlodge.org", token |-> "t1"] }

\* the same with the role compared against the id instead of the email
createDemoProfile_RoleById(u) ==
    [id |-> "demo-profile-1",
     user_id |-> u.id,
     full_name |-> IF u.email = DemoEmail THEN "Demo Admin" ELSE "New Member",
     position |-> IF u.email = DemoEmail THEN "Worshipful Master" ELSE Undefined,
     role |-> IF u.id = DemoEmail THEN "admin" ELSE "member",
     status |-> "active",
     email_verified |-> "true",
     needs_password_reset |-> Undefined]

\* createDemoProfile: the placeholder profile (the fixed dates are left out;
\* last_login is the clock, not the identity)
createDemoProfile(u) ==
    [id |-> "demo-profile-1",
     user_id |-> u.id,
     full_name |-> IF u.email = DemoEmail THEN "Demo Admin" ELSE "New Member",
     position |-> IF u.email = DemoEmail THEN "Worshipful Master" ELSE Undefined,
     role |-> IF u.email = DemoEmail THEN "admin" ELSE "member",
     status |-> "active",
     email_verified |-> "true",
     needs_password_reset |-> Undefined]

\* the row of member_profiles the query .eq('user_id', userId).limit(1) returns
\* when there is one; it differs from the placeholder in every other field
RealRows(userId) ==
    { [id |-> "row-1", user_id |-> userId, full_name |-> "Stored Member",
       position |-> "Secretary", role |-> "member", status |-> "pending",
       email_verified |-> "false", needs_password_reset |-> "true"] }

\* what awaiting api.getMemberProfile(userId) can give loadProfile: a row,
\* null (no row), or a throw (demo mode, timeout, remote rejection).
\* AuthContext imports api from lib/optimizedApi; whatever that wrapper adds,
\* these are the three shapes the await can take.
FetchOutcomes(userId) ==
    { [k |-> "row", row |-> r] : r \in RealRows(userId) }
        \cup { [k |-> "none", row |-> Null], [k |-> "throw", row |-> Null] }

\* what awaiting supabase.auth.getSession() can give getInitialSession
SessionResults ==
    { [k |-> "session", user |-> u] : u \in Identities }
        \cup { [k |-> x, user |-> Null] : x \in {"none", "error", "throw"} }

\* what awaiting supabase.auth.signOut() can give signOut
SignOutResults == {"ok", "error", "throw"}

\* (event, session?.user) pairs the provider hands to the callback: the
\* session of SIGNED_OUT is null; any other event may come with or without one
AuthEvents ==
    ({"SIGNED_IN", "TOKEN_REFRESHED"} \X (Identities \cup {Null}))
        \cup {<<"SIGNED_OUT", Null>>, <<"USER_UPDATED", Null>>}

Task(kind, u) == [kind |-> kind, user |-> u]
Spawn(t) == tasks (+) SetToBag({t})
Retire(t) == tasks (-) SetToBag({t})
Room == BagCardinality(tasks) < MaxTasks

Step(op, by, u, out) == [op |-> op, by |-> by, user |-> u, out |-> out]

----------------------------------------------------------------------------
(* Session Tracker *)

\* the same without the fallback when getMemberProfile throws
loadProfileEnd_NoFallbackOnThrow(currentUser, out) ==
    IF out.k = "row" THEN out.row
    ELSE IF out.k = "throw" THEN profile
    ELSE createDemoProfile(currentUser)

\* loadProfile after its await: the value handed to setProfile
loadProfileEnd(currentUser, out) ==
    IF out.k = "row" THEN out.row ELSE createDemoProfile(currentUser)

\* the same with setLoading(false) at the end of the try block instead of
\* in a finally: the two error paths leave loading as it is
GetInitialSession_NoFinally(res) ==
    /\ initTask.pc = "getSession"
    /\ IF res.k = "error" THEN
            /\ error' = "Authentication error"
            /\ loading' = IF mounted THEN FALSE ELSE loading
            /\ initTask' = [pc |-> "done", user |-> Null]
            /\ UNCHANGED <<user, profile>>
       ELSE IF res.k = "session" /\ mounted THEN
            /\ user' = res.user
            /\ error' = NoError
            /\ initTask' = [pc |-> "loadProfile", user |-> res.user]
            /\ UNCHANGED <<profile, loading>>
       ELSE IF res.k = "throw" THEN
            /\ error' = "Failed to authenticate"
            /\ initTask' = [pc |-> "done", user |-> Null]
            /\ UNCHANGED <<user, profile, loading>>
       ELSE
            /\ loading' = IF mounted THEN FALSE ELSE loading
            /\ initTask' = [pc |-> "done", user |-> Null]
            /\ UNCHANGED <<user, profile, error>>
    /\ last' = Step("getInitialSession", "init", res.user, res.k)
    /\ UNCHANGED <<mounted, tasks>>

\* getInitialSession: continuation of `await supabase.auth.getSession()`
GetInitialSession(res) ==
    /\ initTask.pc = "getSession"
    /\ IF res.k = "error" THEN
            /\ error' = "Authentication error"
            /\ loading' = IF mounted THEN FALSE ELSE loading
            /\ initTask' = [pc |-> "done", user |-> Null]
            /\ UNCHANGED <<user, profile>>
       ELSE IF res.k = "session" /\ mounted THEN
            \* setUser, then loadProfile up to its await (setError(null))
            /\ user' = res.user
            /\ error' = NoError
            /\ initTask' = [pc |-> "loadProfile", user |-> res.user]
            /\ UNCHANGED <<profile, loading>>
       ELSE IF res.k = "throw" THEN
            /\ error' = "Failed to authenticate"
            /\ loading' = IF mounted THEN FALSE ELSE loading
            /\ initTask' = [pc |-> "done", user |-> Null]
            /\ UNCHANGED <<user, profile>>
       ELSE
            /\ loading' = IF mounted THEN FALSE ELSE loading
            /\ initTask' = [pc |-> "done", user |-> Null]
            /\ UNCHANGED <<user, profile, error>>
    /\ last' = Step("getInitialSession", "init", res.user, res.k)
    /\ UNCHANGED <<mounted, tasks>>

\* getInitialSession: continuation of `await loadProfile(session.user)`
InitLoadSettles(out) ==
    /\ initTask.pc = "loadProfile"
    /\ profile' = loadProfileEnd(initTask.user, out)
    /\ loading' = IF mounted THEN FALSE ELSE loading
    /\ initTask' = [pc |-> "done", user |-> Null]
    /\ last' = Step("loadSettled", "init", initTask.user, out.k)
    /\ UNCHANGED <<user, error, mounted, tasks>>

\* handler, SIGNED_IN with a session user: up to the await inside loadProfile
HandleSignedIn(u) ==
    /\ error' = NoError
    /\ user' = u
    /\ tasks' = Spawn(Task("handler", u))
    /\ UNCHANGED <<profile, loading>>

\* the same without the setProfile(null)
HandleSignedOut_KeepsProfile ==
    /\ error' = NoError
    /\ user' = Null
    /\ UNCHANGED <<profile, loading, tasks>>

\* handler, SIGNED_OUT
HandleSignedOut ==
    /\ error' = NoError
    /\ user' = Null
    /\ profile' = Null
    /\ UNCHANGED <<loading, tasks>>

\* the same with the profile reloaded, as on SIGNED_IN
HandleTokenRefreshed_Reloads(u) ==
    /\ error' = NoError
    /\ user' = u
    /\ tasks' = Spawn(Task("handler", u))
    /\ UNCHANGED <<profile, loading>>

\* handler, TOKEN_REFRESHED with a session user
HandleTokenRefreshed(u) ==
    /\ error' = NoError
    /\ user' = u
    /\ UNCHANGED <<profile, loading, tasks>>

\* the callback given to supabase.auth.onAuthStateChange
onAuthStateChange(event, session) ==
    /\ IF ~mounted THEN
            UNCHANGED <<user, profile, loading, error, tasks>>
       ELSE IF event = "SIGNED_IN" /\ session # Null THEN
            HandleSignedIn(session)
       ELSE IF event = "SIGNED_OUT" THEN
            HandleSignedOut
       ELSE IF event = "TOKEN_REFRESHED" /\ session # Null THEN
            HandleTokenRefreshed(session)
       ELSE
            /\ error' = NoError
            /\ UNCHANGED <<user, profile, loading, tasks>>
    /\ last' = Step(event, "handler", session, IF mounted THEN "handled" ELSE "ignored")
    /\ UNCHANGED <<mounted, initTask>>

\* delivery of one session-change event to the callback
AuthEvent(event, session) ==
    /\ (mounted /\ event = "SIGNED_IN" /\ session # Null) => Room
    /\ onAuthStateChange(event, session)

\* the same with a failed fetch reported in the error cell
LoadSettles_SurfacesError(t, out) ==
    /\ BagIn(t, tasks)
    /\ t.kind \in {"handler", "refresh"}
    /\ profile' = loadProfileEnd(t.user, out)
    /\ error' = IF out.k = "throw" THEN "Failed to load profile" ELSE error
    /\ tasks' = Retire(t)
    /\ last' = Step("loadSettled", t.kind, t.user, out.k)
    /\ UNCHANGED <<user, loading, mounted, initTask>>

\* a suspended loadProfile (of the handler or of refreshProfile) resumes
LoadSettles(t, out) ==
    /\ BagIn(t, tasks)
    /\ t.kind \in {"handler", "refresh"}
    /\ profile' = loadProfileEnd(t.user, out)
    /\ tasks' = Retire(t)
    /\ last' = Step("loadSettled", t.kind, t.user, out.k)
    /\ UNCHANGED <<user, loading, error, mounted, initTask>>

\* signOut up to `await supabase.auth.signOut()`
SignOutCall ==
    /\ mounted
    /\ Room
    /\ error' = NoError
    /\ tasks' = Spawn(Task("signOut", Null))
    /\ last' = Step("signOut", "caller", Null, "called")
    /\ UNCHANGED <<user, profile, loading, mounted, initTask>>

\* the same with the cells cleared before the provider's answer is looked at
signOutEnd_ClearsFirst(res) ==
    /\ user' = Null
    /\ profile' = Null
    /\ IF res = "ok" THEN
            /\ UNCHANGED error
            /\ last' = Step("signOutReturned", "caller", Null, res)
       ELSE
            /\ error' = "Failed to sign out"
            /\ last' = Step("signOutThrown", "caller", Null, res)

\* signOut after the await: clear the cells and return, or set the error and
\* rethrow (res: the provider returned no error, returned one, or threw)
signOutEnd(res) ==
    IF res = "ok" THEN
        /\ user' = Null
        /\ profile' = Null
        /\ UNCHANGED error
        /\ last' = Step("signOutReturned", "caller", Null, res)
    ELSE
        /\ error' = "Failed to sign out"
        /\ UNCHANGED <<user, profile>>
        /\ last' = Step("signOutThrown", "caller", Null, res)

SignOutSettles(res) ==
    /\ BagIn(Task("signOut", Null), tasks)
    /\ signOutEnd(res)
    /\ tasks' = Retire(Task("signOut", Null))
    /\ UNCHANGED <<loading, mounted, initTask>>

\* the same with loadProfile's setError(null) run before the `if (user)`
refreshProfile_ClearsError ==
    IF user # Null THEN
        /\ error' = NoError
        /\ tasks' = Spawn(Task("refresh", user))
        /\ last' = Step("refreshProfile", "caller", user, "called")
        /\ UNCHANGED <<user, profile, loading>>
    ELSE
        /\ error' = NoError
        /\ last' = Step("refreshProfile", "caller", Null, "noop")
        /\ UNCHANGED <<user, profile, loading, tasks>>

\* refreshProfile up to the await inside loadProfile, or all of it when user is null
refreshProfile ==
    IF user # Null THEN
        /\ error' = NoError
        /\ tasks' = Spawn(Task("refresh", user))
        /\ last' = Step("refreshProfile", "caller", user, "called")
        /\ UNCHANGED <<user, profile, loading>>
    ELSE
        /\ last' = Step("refreshProfile", "caller", Null, "noop")
        /\ UNCHANGED <<user, profile, loading, error, tasks>>

RefreshProfileCall ==
    /\ mounted
    /\ user # Null => Room
    /\ refreshProfile
    /\ UNCHANGED <<mounted, initTask>>

\* obj?.field
OptChain(obj, field) == IF obj = Null THEN Undefined ELSE obj[field]

\* const isAdmin = profile?.role === 'admin'
isAdmin == OptChain(profile, "role") = "admin"

\* the same with a test for "not false" instead of "true"
needsPasswordReset_NotFalse == OptChain(profile, "needs_password_reset") # "false"

\* const needsPasswordReset = profile?.needs_password_reset === true
needsPasswordReset == OptChain(profile, "needs_password_reset") = "true"

\* the effect's cleanup: mounted = false; subscription.unsubscribe()
Unmount ==
    /\ mounted
    /\ mounted' = FALSE
    /\ last' = Step("unmount", "react", Null, "done")
    /\ UNCHANGED <<user, profile, loading, error, initTask, tasks>>


----------------------------------------------------------------------------
(* Data-access layer *)

\* exported functions of the object api (api.ts:19-323)
ApiOps ==
    {"getMemberProfile", "createMemberProfile", "adminCreateMemberProfile",
     "getAllMembers", "updateMemberProfile", "deleteMemberProfile",
     "deleteUserAndProfile", "getLodgeDocuments", "createDocument",
     "getMeetingMinutes", "createMinutes"}

\* exported functions of the object cmsApi (api.ts:350-1038)
CmsOps ==
    {"getEvents", "getNextUpcomingEvent", "createEvent", "updateEvent", "deleteEvent",
     "getNewsArticles", "createNewsArticle", "updateNewsArticle", "deleteNewsArticle",
     "getOfficers", "createOfficer", "updateOfficer", "deleteOfficer",
     "getTestimonials", "createTestimonial", "updateTestimonial", "deleteTestimonial",
     "getFAQItems", "createFAQItem", "updateFAQItem", "deleteFAQItem",
     "getSiteSettings", "updateSiteSetting",
     "getPageContent", "updatePageContent", "createPageContent"}

Ops == ApiOps \cup CmsOps

\* the same with the check missing from getLodgeDocuments
DemoCheckedOps_NotDocuments ==
    {"getMemberProfile", "createMemberProfile", "getAllMembers",
     "getMeetingMinutes"} \cup CmsOps

\* the functions whose body starts with `if (shouldUseDemoMode())`
DemoCheckedOps ==
    {"getMemberProfile", "createMemberProfile", "getAllMembers",
     "getLodgeDocuments", "getMeetingMinutes"} \cup CmsOps

\* the read operations
ReadOps ==
    {"getMemberProfile", "getAllMembers", "getLodgeDocuments", "getMeetingMinutes",
     "getEvents", "getNextUpcomingEvent", "getNewsArticles", "getOfficers",
     "getTestimonials", "getFAQItems", "getSiteSettings", "getPageContent"}

\* default bound of the withTimeout of api (no call of api relies on it)
ApiDefaultTimeoutMs == 90000
\* default bound of the withTimeout of cmsApi
CmsDefaultTimeoutMs == 60000

\* the same with the api functions relying on their module's default bound
TimeoutMs_ApiDefault(op) ==
    IF op \in CmsOps THEN CmsDefaultTimeoutMs ELSE ApiDefaultTimeoutMs

\* the full-collection and bulk listing operations
ListingOps ==
    {"getAllMembers", "getLodgeDocuments", "getMeetingMinutes", "getEvents",
     "getNewsArticles", "getOfficers", "getTestimonials", "getFAQItems",
     "getSiteSettings", "getPageContent"}

\* the bound each function passes to withTimeout
TimeoutMs(op) ==
    IF op \in CmsOps THEN CmsDefaultTimeoutMs
    ELSE IF op = "getAllMembers" THEN 90000
    ELSE 60000

\* !VITE_SUPABASE_URL || !VITE_SUPABASE_ANON_KEY
shouldUseDemoMode == ~env.url \/ ~env.key

UserIds == {"u1", "u2"}

Pending == [k |-> "pending", msg |-> "", ms |-> 0, v |-> Null]
Returned(v) == [k |-> "ok", msg |-> "", ms |-> 0, v |-> v]
Thrown(msg) == [k |-> "error", msg |-> msg, ms |-> 0, v |-> Null]
TimeoutError(ms) == [k |-> "error", msg |-> "Request timeout after <ms>ms", ms |-> ms, v |-> Null]
DemoError == Thrown("Demo mode - no database connection")

\* the record createMemberProfile builds in demo mode (clock fields left out)
demoProfile(userId) ==
    [user_id |-> userId, role |-> "member", status |-> "pending", email_verified |-> "false"]

\* what the awaited query can settle with: { data } or { error }
QueryResults == {"data", "dberror"}

\* the continuation after `await withTimeout(query, ms)` when the query won
afterQuery(op, arg, r) ==
    IF r = "dberror" THEN Thrown("Failed to <operation>: <error.message>")
    ELSE Returned([rows |-> op, of |-> arg])

\* a race in which the promise that settles last decides
withTimeout_LastWins(race, who) == who

\* Promise.race: the first of the two promises to settle decides, the other
\* settles unobserved
withTimeout(race, who) ==
    IF race = "pending" THEN who ELSE race

Idle == [pc |-> "idle", op |-> "", arg |-> "", sent |-> 0, query |-> "none",
         timer |-> "none", ms |-> 0, race |-> "pending", result |-> Pending]

\* a function's body up to its first await
Begin(op, arg) ==
    IF op \in DemoCheckedOps /\ shouldUseDemoMode THEN
        [Idle EXCEPT !.pc = "done", !.op = op, !.arg = arg,
                     !.result = IF op = "createMemberProfile"
                                THEN Returned(demoProfile(arg)) ELSE DemoError]
    ELSE IF op = "deleteUserAndProfile" THEN
        [Idle EXCEPT !.pc = "getSession", !.op = op, !.arg = arg]
    ELSE
        [Idle EXCEPT !.pc = "racing", !.op = op, !.arg = arg, !.sent = 1,
                     !.query = "pending", !.timer = "armed", !.ms = TimeoutMs(op)]

\* the outcome of the race as the function hands it to its caller
Settled(c, race) ==
    IF race = "timer" THEN TimeoutError(c.ms)
    ELSE IF race \in QueryResults THEN afterQuery(c.op, c.arg, race)
    ELSE c.result

\* the same with the query issued again when the remote side rejects it
Resume_RetriesOnError(c, race) ==
    IF race = "dberror" /\ c.race = "pending" /\ c.sent < 3
    THEN [c EXCEPT !.query = "pending", !.sent = c.sent + 1]
    ELSE [c EXCEPT !.race = race, !.pc = "done", !.result = Settled(c, race)]

\* the function resumes after `await withTimeout(...)`: it returns or throws,
\* and nothing is issued again
Resume(c, race) ==
    [c EXCEPT !.race = race, !.pc = "done", !.result = Settled(c, race)]

ApiFrame == UNCHANGED <<user, profile, loading, error, mounted, initTask, tasks, env>>

\* a caller invokes one exported function
Invoke(op, arg) ==
    /\ call.pc \in {"idle", "done"}
    /\ call' = Begin(op, arg)
    /\ last' = Step("invoke", "api", Null, op)
    /\ ApiFrame

\* the query promise settles
QuerySettles(r) ==
    /\ call.query = "pending"
    /\ call' = Resume([call EXCEPT !.query = r], withTimeout(call.race, r))
    /\ last' = Step("querySettled", "api", Null, r)
    /\ ApiFrame

\* the setTimeout callback runs and rejects the timer promise
TimerFires ==
    /\ call.timer = "armed"
    /\ call' = Resume([call EXCEPT !.timer = "fired"], withTimeout(call.race, "timer"))
    /\ last' = Step("timerFired", "api", Null, "timer")
    /\ ApiFrame

\* the same without the `if (!session)` test
DeleteGetSession_NoSessionTest(hasSession) ==
    /\ call.pc = "getSession"
    /\ call' = [call EXCEPT !.pc = "http", !.sent = call.sent + 1]
    /\ last' = Step("deleteGetSession", "api", Null, IF hasSession THEN "session" ELSE "none")
    /\ ApiFrame

\* deleteUserAndProfile: continuation of `await supabase.auth.getSession()`
DeleteGetSession(hasSession) ==
    /\ call.pc = "getSession"
    /\ call' = IF hasSession
               THEN [call EXCEPT !.pc = "http", !.sent = call.sent + 1]
               ELSE [call EXCEPT !.pc = "done", !.result = Thrown("Not authenticated")]
    /\ last' = Step("deleteGetSession", "api", Null, IF hasSession THEN "session" ELSE "none")
    /\ ApiFrame

\* answers of the deletion endpoint, a JSON body each: 2xx, or non-2xx with
\* or without an `error` member
HttpResponses == {"ok", "errorWithMessage", "errorWithoutMessage"}

\* deleteUserAndProfile: continuation of `await fetch(...)` and of response.json()
DeleteResponse(resp) ==
    /\ call.pc = "http"
    /\ call' = [call EXCEPT !.pc = "done",
                     !.result = IF resp = "ok" THEN Returned([body |-> call.arg])
                                ELSE IF resp = "errorWithMessage" THEN Thrown("<errorData.error>")
                                ELSE Thrown("Failed to delete user")]
    /\ last' = Step("deleteResponse", "api", Null, resp)
    /\ ApiFrame

----------------------------------------------------------------------------
(* Specifications *)

\* state after the first render and the effect: getSession is awaited
Init ==
    /\ user = Null
    /\ profile = Null
    /\ loading = TRUE
    /\ error = NoError
    /\ mounted = TRUE
    /\ initTask = [pc |-> "getSession", user |-> Null]
    /\ tasks = EmptyBag
    /\ last = Step("mount", "react", Null, "done")
    /\ env = [url |-> TRUE, key |-> TRUE]
    /\ call = Idle

Next ==
    \/ \E res \in SessionResults : GetInitialSession(res) /\ UNCHANGED apiVars
    \/ /\ initTask.pc = "loadProfile"
       /\ \E out \in FetchOutcomes(initTask.user.id) : InitLoadSettles(out)
       /\ UNCHANGED apiVars
    \/ \E ev \in AuthEvents : AuthEvent(ev[1], ev[2]) /\ UNCHANGED apiVars
    \/ \E t \in BagToSet(tasks) :
            /\ t.kind # "signOut"
            /\ \E out \in FetchOutcomes(t.user.id) : LoadSettles(t, out)
            /\ UNCHANGED apiVars
    \/ SignOutCall /\ UNCHANGED apiVars
    \/ \E res \in SignOutResults : SignOutSettles(res) /\ UNCHANGED apiVars
    \/ RefreshProfileCall /\ UNCHANGED apiVars
    \/ Unmount /\ UNCHANGED apiVars

Spec == Init /\ [][Next]_vars

\* the promise of getSession settles
InitSessionStep ==
    \E res \in SessionResults : GetInitialSession(res) /\ UNCHANGED apiVars

\* the profile fetch of the initial load settles
InitLoadStep ==
    /\ initTask.pc = "loadProfile"
    /\ \E out \in FetchOutcomes(initTask.user.id) : InitLoadSettles(out)
    /\ UNCHANGED apiVars

\* the tracker when the provider and the profile fetch of the initial check
\* settle: a continuation that is ready is run by the event loop
LiveSpec ==
    /\ Init /\ [][Next]_vars
    /\ WF_vars(InitSessionStep)
    /\ WF_vars(InitLoadStep)

\* the data-access layer on its own, under every configuration
ApiInit ==
    /\ user = Null
    /\ profile = Null
    /\ loading = TRUE
    /\ error = NoError
    /\ mounted = TRUE
    /\ initTask = [pc |-> "getSession", user |-> Null]
    /\ tasks = EmptyBag
    /\ last = Step("mount", "react", Null, "done")
    /\ env \in [url : BOOLEAN, key : BOOLEAN]
    /\ call = Idle

ApiNext ==
    \/ \E op \in Ops, arg \in UserIds : Invoke(op, arg)
    \/ \E r \in QueryResults : QuerySettles(r)
    \/ TimerFires
    \/ \E s \in BOOLEAN : DeleteGetSession(s)
    \/ \E resp \in HttpResponses : DeleteResponse(resp)

ApiSpec == ApiInit /\ [][ApiNext]_vars

\* either layer followed on its own: the tracker under the full
\* configuration while no data-access call is followed, or one data-access
\* call under any configuration while the tracker has not moved
LayersNext ==
    \/ call = Idle /\ ~shouldUseDemoMode /\ Next
    \/ mounted /\ last.by \in {"react", "api"} /\ ApiNext

LayersSpec == ApiInit /\ [][LayersNext]_vars

----------------------------------------------------------------------------
(* Properties *)

\* the step just taken was the handler, run while mounted, for this event
Handled(st, event) == st.op = event /\ st.by = "handler" /\ st.out = "handled"

\* an identity is stored and no Profile is
Gap == user # Null /\ profile = Null

\* C1: handling a signed-out event while mounted leaves user = null and
\* profile = null, whatever the four cells held before.
C1_SignedOutClears ==
    Handled(last, "SIGNED_OUT") => (user = Null /\ profile = Null)

\* C1 witness: a signed-out event was handled after the initial check had
\* completed, with a profile load of an earlier sign-in still in flight.
C1_Witness ==
    /\ Handled(last, "SIGNED_OUT")
    /\ loading = FALSE
    /\ \E t \in BagToSet(tasks) : t.kind = "handler"
    /\ user = Null /\ profile = Null

\* C2 as stated: once loading is false, a stored identity implies a Profile.
C2_ProfileWheneverIdentity ==
    (loading = FALSE /\ user # Null) => profile # Null

\* C2 amended: every completed profile load leaves the Profile non-null, and
\* a stored identity without a Profile arises only by a step that stores an
\* identity where none was stored: a signed-in event or the initial session
\* result (their load is then in flight) or a token-refreshed event.
C2_LoadLeavesProfile ==
    /\ [](last.op = "loadSettled" => profile # Null)
    /\ [][(~Gap /\ Gap') =>
            /\ user = Null
            /\ user' = last'.user
            /\ \/ Handled(last', "TOKEN_REFRESHED")
               \/ Handled(last', "SIGNED_IN") /\ BagIn(Task("handler", user'), tasks')
               \/ last'.op = "getInitialSession" /\ initTask'.pc = "loadProfile"]_vars

\* C2 witness: the initial check found a session, its profile fetch threw,
\* and loading has just become false with the placeholder stored.
C2_Witness ==
    /\ last.op = "loadSettled" /\ last.by = "init" /\ last.out = "throw"
    /\ loading = FALSE /\ user # Null /\ profile # Null

\* C3 as stated: after teardown no step changes user, profile, loading or error.
C3_NoUpdateAfterTeardown ==
    [][~mounted => UNCHANGED <<user, profile, loading, error>>]_vars

\* C4: handling a token-refreshed event that carries a session user stores
\* that user, leaves profile and loading as they were and starts no fetch.
C4_TokenRefreshedFrame ==
    [][(Handled(last', "TOKEN_REFRESHED") /\ last'.user # Null) =>
            /\ user' = last'.user
            /\ profile' = profile
            /\ loading' = loading
            /\ tasks' = tasks
            /\ initTask' = initTask]_vars

\* C4 witness: a token-refreshed event replaced the stored identity by the
\* one with the rotated token while a loaded Profile stayed in place.
C4_Witness ==
    /\ Handled(last, "TOKEN_REFRESHED")
    /\ last.user # Null /\ user = last.user /\ user.token = "t2"
    /\ profile # Null /\ profile.id = "row-1"

\* C5: with the URL or the key absent, every read operation has failed with
\* the demo-mode error and createMemberProfile has returned a record with
\* status pending and role member for the given user id, and neither has
\* issued a network request.
C5_DemoModeReads ==
    ((~env.url \/ ~env.key) /\ call.pc # "idle") =>
        /\ call.op \in ReadOps =>
                call.pc = "done" /\ call.result = DemoError /\ call.sent = 0
        /\ call.op = "createMemberProfile" =>
                /\ call.pc = "done" /\ call.sent = 0
                /\ call.result.k = "ok"
                /\ call.result.v.user_id = call.arg
                /\ call.result.v.status = "pending"
                /\ call.result.v.role = "member"

\* C5 witness: with only the key absent, getLodgeDocuments has failed with
\* the demo-mode error.
C5_Witness ==
    /\ env.url /\ ~env.key
    /\ call.op = "getLodgeDocuments" /\ call.pc = "done"
    /\ call.result = DemoError

\* C6 as stated: with the URL or the key absent, no operation issues network I/O.
C6_NoNetworkInDemoMode ==
    (~env.url \/ ~env.key) => call.sent = 0

\* C7: a call raced by withTimeout settles once: the first of timer and
\* query to settle decides the outcome (the timeout error with the bound, or
\* the query's outcome), and the one that settles later changes nothing.
C7_SettlesOnce ==
    [][/\ (call.pc = "racing" /\ last'.op = "timerFired") =>
                call'.pc = "done" /\ call'.result = TimeoutError(call.ms)
       /\ (call.pc = "racing" /\ last'.op = "querySettled") =>
                call'.pc = "done" /\ call'.result = afterQuery(call.op, call.arg, last'.out)
       /\ (call.pc = "done" /\ last'.op \in {"timerFired", "querySettled"}) =>
                call'.pc = "done" /\ call'.result = call.result]_vars

\* C7 witness: the timer of getAllMembers fired first, the rows arrived
\* later, and the caller still holds the timeout error with the 90000 bound.
C7_Witness ==
    /\ call.op = "getAllMembers" /\ call.pc = "done"
    /\ call.timer = "fired" /\ call.query = "data" /\ last.op = "querySettled"
    /\ call.result = TimeoutError(90000)

\* C8: when the profile fetch throws or finds no row, the load ends with a
\* placeholder whose user_id is the identity's id, status active, role admin
\* exactly for the demo-admin email and member otherwise, position
\* Worshipful Master exactly in the admin case; identities with the same id
\* and email get the same placeholder.
C8_Placeholder ==
    (last.op = "loadSettled" /\ last.out \in {"none", "throw"}) =>
        /\ profile # Null
        /\ profile.user_id = last.user.id
        /\ profile.status = "active"
        /\ profile.role = (IF last.user.email = "demo@radlettlodge.org" THEN "admin" ELSE "member")
        /\ (profile.position = "Worshipful Master") = (profile.role = "admin")
        /\ \A i \in Identities :
                (i.id = last.user.id /\ i.email = last.user.email) =>
                    profile = createDemoProfile(i)

\* C8 witness: a sign-in of the demo-admin identity whose fetch threw ended
\* with the admin placeholder.
C8_Witness ==
    /\ last.op = "loadSettled" /\ last.by = "handler" /\ last.out = "throw"
    /\ last.user.email = DemoEmail
    /\ profile # Null /\ profile.role = "admin" /\ profile.id = "demo-profile-1"

\* C9: signOut itself never touches user or profile before the provider
\* answers; when the provider succeeds it returns with user and profile
\* null; when the provider fails it throws, error is 'Failed to sign out',
\* and user and profile are as they were.
C9_SignOut ==
    [][/\ last'.op = "signOut" => (user' = user /\ profile' = profile)
       /\ (last'.op \in {"signOutReturned", "signOutThrown"} /\ last'.out = "ok") =>
                last'.op = "signOutReturned" /\ user' = Null /\ profile' = Null
       /\ (last'.op \in {"signOutReturned", "signOutThrown"} /\ last'.out # "ok") =>
                /\ last'.op = "signOutThrown"
                /\ error' = "Failed to sign out"
                /\ user' = user /\ profile' = profile]_vars

\* C9 witness: the provider call failed while an identity and a Profile
\* were stored; both are still there and the error string is set.
C9_Witness ==
    /\ last.op = "signOutThrown" /\ last.out = "error"
    /\ user # Null /\ profile # Null
    /\ error = "Failed to sign out"

\* C10: refreshProfile with no identity changes none of the four cells and
\* starts no fetch; with an identity it starts one load for that identity,
\* which ends with a Profile whose user_id is that identity's id, and
\* neither step changes the stored identity.
C10_RefreshProfile ==
    [][/\ (last'.op = "refreshProfile" /\ user = Null) =>
                UNCHANGED <<user, profile, loading, error, tasks>>
       /\ (last'.op = "refreshProfile" /\ user # Null) =>
                /\ tasks' = tasks (+) SetToBag({Task("refresh", user)})
                /\ UNCHANGED <<user, profile, loading>>
       /\ (last'.op = "loadSettled" /\ last'.by = "refresh") =>
                /\ BagIn(Task("refresh", last'.user), tasks)
                /\ profile' # Null
                /\ profile'.user_id = last'.user.id
                /\ user' = user]_vars

\* C10 witness: refreshProfile for {id u1, email demo@radlettlodge.org} with
\* no stored row ended with the admin placeholder for u1.
C10_Witness ==
    /\ last.op = "loadSettled" /\ last.by = "refresh" /\ last.out = "none"
    /\ last.user.id = "u1" /\ last.user.email = DemoEmail
    /\ user = last.user
    /\ profile # Null
    /\ profile.user_id = "u1" /\ profile.role = "admin"
    /\ profile.status = "active" /\ profile.position = "Worshipful Master"

\* C11: nothing is retried. A data-access call issues at most one remote
\* request, and once it has failed towards its caller nothing more comes of
\* it; a profile load ends when its one fetch settles, whatever the outcome,
\* without starting anything.
C11_NoRetry ==
    /\ [](call.sent <= 1)
    /\ [][/\ (call.result.k = "error" /\ last'.op # "invoke") =>
                (call'.result = call.result /\ call'.sent = call.sent /\ call'.pc = "done")
          /\ (last'.op = "loadSettled" /\ last'.by = "init") =>
                (initTask.pc = "loadProfile" /\ initTask'.pc = "done" /\ tasks' = tasks)
          /\ (last'.op = "loadSettled" /\ last'.by # "init") =>
                /\ BagIn(Task(last'.by, last'.user), tasks)
                /\ tasks' = tasks (-) SetToBag({Task(last'.by, last'.user)})
                /\ initTask' = initTask]_vars

\* C11 witness: getMemberProfile was rejected by the remote side and has
\* failed towards its caller after its single request.
C11_Witness ==
    /\ call.op = "getMemberProfile" /\ call.pc = "done"
    /\ call.query = "dberror" /\ call.result.k = "error"
    /\ call.sent = 1

\* C12: loading is true until the initial session check, with the profile
\* load it awaits, has completed; while mounted it is false from then on;
\* once false it never becomes true again; and when the provider and the
\* fetch settle it becomes false unless the component is unmounted first,
\* whether the check found a session, found none, returned an error or threw.
C12_Loading ==
    /\ [](initTask.pc # "done" => loading)
    /\ []((initTask.pc = "done" /\ mounted) => ~loading)
    /\ [][~loading => ~loading']_vars
    /\ <>(~loading \/ ~mounted)

\* C12 witness: getSession threw and loading is false in the mounted component.
C12_Witness ==
    /\ last.op = "getInitialSession" /\ last.out = "throw"
    /\ mounted /\ ~loading
    /\ error = "Failed to authenticate"

\* a call that has been raced against a timer
Raced == call.pc # "idle" /\ call.timer # "none"

\* C13 as stated: every listing operation is raced against 90000 ms and
\* every other raced operation against 60000 ms.
C13_ListingsGet90s ==
    Raced => call.ms = (IF call.op \in ListingOps THEN 90000 ELSE 60000)

\* C13 amended: the bounds are call-specific only in that getAllMembers is
\* raced against 90000 ms; every other raced operation, listing or not, is
\* raced against 60000 ms.
C13_OnlyAllMembersGets90s ==
    Raced => call.ms = (IF call.op = "getAllMembers" THEN 90000 ELSE 60000)

\* C13 witness: the listing getEvents is being raced against 60000 ms.
C13_Witness ==
    /\ call.op = "getEvents" /\ call.pc = "racing"
    /\ call.timer = "armed" /\ call.ms = 60000

\* deleteUserAndProfile has gone through the named step with the named outcome
Deleted(op, out) ==
    call.op = "deleteUserAndProfile" /\ last.op = op /\ last.out = out

C15_DerivedFlags ==
    /\ isAdmin = (profile # Null /\ profile.role = "admin")
    /\ needsPasswordReset = (profile # Null /\ profile.needs_password_reset = "true")
    /\ profile = Null => (~isAdmin /\ ~needsPasswordReset)

\* C15 witness: the stored row of a member who must reset the password is
\* the Profile: needsPasswordReset is true and isAdmin is false.
C15_Witness ==
    /\ profile # Null /\ profile.id = "row-1"
    /\ needsPasswordReset /\ ~isAdmin

\* C16: session-change events are handled without overlap: when the handler
\* takes effect for an event, no earlier run of the handler is still
\* suspended in the profile load it awaits.
C16_NoOverlap ==
    [][(last'.by = "handler" /\ last'.out = "handled")
            => \A t \in BagToSet(tasks) : t.kind # "handler"]_vars

\* C17: with demo mode inactive, a data-access call that is waiting for the
\* remote side always has a deadline timer armed, so the timer alone can
\* settle it.
C17_PendingCallHasDeadline ==
    (~shouldUseDemoMode /\ call.pc \notin {"idle", "done"}) => call.timer = "armed"

\* the step just taken entered loadProfile and suspended in its fetch
LoadStarted(st, pcAfter) ==
    \/ st.op = "getInitialSession" /\ pcAfter = "loadProfile"
    \/ Handled(st, "SIGNED_IN") /\ st.user # Null
    \/ st.op = "refreshProfile" /\ st.out = "called"

\* C18 as stated: whenever a profile load has just completed, error is null
\* and the Profile is non-null.
C18_ErrorNullAfterLoad ==
    last.op = "loadSettled" => (error = NoError /\ profile # Null)

\* C18 amended: a profile load clears error when it starts; when it
\* completes, whatever the fetch did, it stores a non-null Profile, leaves
\* error as it finds it and returns to its caller (the initial check goes on
\* to its end).
C18_LoadNeverSurfaces ==
    [][/\ LoadStarted(last', initTask'.pc) => error' = NoError
       /\ last'.op = "loadSettled" =>
            /\ profile' # Null
            /\ error' = error
            /\ last'.by = "init" => initTask'.pc = "done"]_vars

\* C18 witness: a load whose fetch threw has just completed: the Profile is
\* the placeholder and error is null.
C18_Witness ==
    /\ last.op = "loadSettled" /\ last.out = "throw"
    /\ profile = createDemoProfile(last.user)
    /\ error = NoError

\* C19: a null identity implies a null Profile, and hence isAdmin false
\* when nobody is signed in.
C19_NoProfileWithoutIdentity ==
    user = Null => (profile = Null /\ ~isAdmin)

\* C20: whenever identity and Profile are both non-null, the Profile belongs
\* to the stored identity.
C20_ProfileOfStoredIdentity ==
    (user # Null /\ profile # Null) => profile.user_id = user.id

====
